---- MODULE Spec2Model ----
(* Highway's multi-target dispatch engine: the per-routine dispatch table    *)
(* built by HWY_EXPORT, the call site HWY_DYNAMIC_DISPATCH, the table's      *)
(* initializer FunctionCache::ChooseAndCall (hwy/highway.h) and the          *)
(* process-wide chosen-target cache it resolves.                             *)
(* Spec is the running process; SpecScenario runs it on the builds of two    *)
(* documented resolution scenarios; SpecBuild compiles a translation unit    *)
(* such as hwy/examples/skeleton.cc in per-target passes; SpecLanes runs     *)
(* TestLogicalInteger of hwy/tests/logical_test.cc; SpecShift runs the lane  *)
(* shift tests of hwy/tests/blockwise_test.cc; SpecFair is the running       *)
(* process of multi-target builds under fair thread scheduling.              *)
EXTENDS Integers, Sequences, FiniteSets, TLC

\* ---------------------------------------------------------------- bounds

\* Number of host threads that call exported routines.
NumThreads == 2
\* Total number of dispatch calls the threads start.
MaxCalls == 2
\* Cap on the entries of ChooseAndCall within one dispatch call.
MaxInits == 2

\* Bits of an integer lane in the vector tests.
LaneBits == 3
\* Lanes of a vector in the vector tests.
NumLanes == 2

\* Inclusions of hwy/highway.h within one pass over a translation unit.
MaxIncludes == 2

\* The lane-shift tests run on vectors of 1, 2, .. 2^MaxLog2Lanes lanes.
MaxLog2Lanes == 3
\* The lane-shift tests fill their input with Iota(d, 1) .. Iota(d, MaxFirst).
MaxFirst == 2

Threads == 1..NumThreads

\* ------------------------------------------------------- target registry

\* Dynamic target lists of the platforms, most specialized target first.
X86_TARGET_LIST == <<"AVX2", "SSE4">>
X86_AVX3_TARGET_LIST == <<"AVX3", "AVX2", "SSE4">>
ARM_TARGET_LIST == <<"NEON">>
HWY_SCALAR == "SCALAR"

\* Exported routines: skeleton::FloorLog2 and hwy::SortU16Asc (vqsort).
Funcs == {"FloorLog2", "SortU16Asc"}
\* Values passed to a routine: each routine has its own argument values.
ArgsOf(f) == IF f = "FloorLog2" THEN {1} ELSE {2}

\* Table slot values: a null pointer, the initializer, or FuncPtr(T, f).
NULL == [ns |-> "nullptr", func |-> "nullptr"]
INIT_SLOT == [ns |-> "FunctionCache", func |-> "ChooseAndCall"]
\* No call has returned yet.
NoRet == [ns |-> "none", func |-> "none", arg |-> 0]
\* No translation unit is being compiled; no vector test is running.
NoUnit == [status |-> "none"]
NoVec == [op |-> "none"]

VARIABLES
  Platform,       \* the platform's dynamic target list (fixed at build time)
  HWY_IDE,        \* the build defines HWY_IDE (fixed at build time)
  unit,           \* a translation unit under compilation (target passes)
  vec,            \* a vector test in progress (per-lane operations)
  CompiledSet,    \* targets the build compiles (fixed at build time)
  SupportedSet,   \* targets the host CPU executes (the Detector's answer)
  HWY_TARGETS,    \* per routine: targets compiled in the routine's module
  chosen_target,  \* the process-wide cache {state, selectedIndex}
  terminated,     \* the process was killed
  pc,             \* per thread: position in the dispatch call
  fn,             \* per thread: routine of the current/last call
  arg,            \* per thread: argument of the current/last call
  idx,            \* per thread: table index last read from the cache
  det,            \* per thread: Detector result held by a running Update
  first,          \* per thread: index HWY_DYNAMIC_DISPATCH read in this call
  inits,          \* per thread: entries of ChooseAndCall in this call
  updates,        \* per thread: executions of Update in this call
  ret,            \* per thread: result of the last completed call
  ncalls,         \* dispatch calls started so far
  resolves        \* executions of ChosenTarget::Update so far

vars == <<Platform, HWY_IDE, unit, vec, CompiledSet, SupportedSet,
          HWY_TARGETS, chosen_target, terminated,
          pc, fn, arg, idx, det, first, inits, updates, ret, ncalls,
          resolves>>

build == <<Platform, HWY_IDE, CompiledSet, SupportedSet, HWY_TARGETS>>

\* Dynamic targets of the platform in priority order, most specialized first.
TargetList == Platform
HWY_MAX_DYNAMIC_TARGETS == Len(TargetList)
\* The whole priority order: the dynamic targets, then Scalar.
PriorityOrder == TargetList \o <<HWY_SCALAR>>
Targets == {PriorityOrder[i] : i \in 1..Len(PriorityOrder)}
\* Rank of a target in the priority order (1 = most specialized).
Rank(T) == CHOOSE i \in 1..Len(PriorityOrder) : PriorityOrder[i] = T

\* The member of a non-empty target set that ranks first.
Highest(S) == CHOOSE T \in S : \A U \in S : Rank(T) <= Rank(U)
\* The member of a non-empty target set that ranks last.
Lowest(S) == CHOOSE T \in S : \A U \in S : Rank(U) <= Rank(T)

\* The static target: the last of the enabled targets.
HWY_STATIC_TARGET == Lowest(CompiledSet)

\* ------------------------------------------------------ hwy/highway.h

\* Address of N_<T>::f.
FuncPtr(T, f) == [ns |-> T, func |-> f]

\* Calling the function a slot points at.
Apply(p, a) == [ns |-> p.ns, func |-> p.func, arg |-> a]

\* Variant: static dispatch always names N_SCALAR.
HWY_STATIC_DISPATCH_Scalar(f) == FuncPtr(HWY_SCALAR, f)

\* Variant: static dispatch names the first of the enabled targets.
HWY_STATIC_DISPATCH_First(f) == FuncPtr(Highest(HWY_TARGETS[f]), f)

HWY_STATIC_DISPATCH(f) == FuncPtr(HWY_STATIC_TARGET, f)

\* Variant: the Scalar slot always names N_SCALAR, compiled or not.
HWY_CHOOSE_SCALAR_NoFallback(f) == FuncPtr(HWY_SCALAR, f)

\* Variant: like the other HWY_CHOOSE_* macros, the Scalar slot is null
\* when Scalar is not compiled.
HWY_CHOOSE_SCALAR_Null(f) ==
  IF HWY_SCALAR \in HWY_TARGETS[f] THEN FuncPtr(HWY_SCALAR, f) ELSE NULL

HWY_CHOOSE_SCALAR(f) ==
  IF HWY_SCALAR \in HWY_TARGETS[f]
    THEN FuncPtr(HWY_SCALAR, f)
    ELSE HWY_STATIC_DISPATCH(f)

\* Variant: every compiled target's macro names the lowest compiled
\* dynamic target's namespace (a copy-and-paste slip in the macro list).
HWY_CHOOSE_WrongNamespace(T, f) ==
  IF T \in HWY_TARGETS[f]
    THEN FuncPtr(Lowest(HWY_TARGETS[f] \ {HWY_SCALAR}), f)
    ELSE NULL

\* Variant: the macro of the static target expands to nullptr, as if that
\* target were reachable through HWY_STATIC_DISPATCH only.
HWY_CHOOSE_StaticNull(T, f) ==
  IF T \in HWY_TARGETS[f] \ {HWY_STATIC_TARGET} THEN FuncPtr(T, f) ELSE NULL

\* Variant: the macro of a target that is not compiled expands to the
\* initializer instead of nullptr.
HWY_CHOOSE_Initializer(T, f) ==
  IF T \in HWY_TARGETS[f] THEN FuncPtr(T, f) ELSE INIT_SLOT

\* HWY_CHOOSE_<T>(f) for a dynamic target T.
HWY_CHOOSE(T, f) ==
  IF T \in HWY_TARGETS[f] THEN FuncPtr(T, f) ELSE NULL

HWY_CHOOSE_TARGET_LIST(f) ==
  [i \in 1..HWY_MAX_DYNAMIC_TARGETS |-> HWY_CHOOSE(TargetList[i], f)]

\* Variant: the single-target test ignores HWY_IDE.
SingleTarget_NoIDE(f) == Cardinality(HWY_TARGETS[f]) <= 1

\* #if HWY_IDE || ((HWY_TARGETS & (HWY_TARGETS - 1)) == 0)
SingleTarget(f) == HWY_IDE \/ Cardinality(HWY_TARGETS[f]) <= 1

\* Variant: the Scalar slot is listed before the dynamic targets.
HWY_EXPORT_ScalarFirst(f) ==
  IF SingleTarget(f)
    THEN <<HWY_STATIC_DISPATCH(f)>>
    ELSE <<INIT_SLOT>> \o <<HWY_CHOOSE_SCALAR(f)>> \o HWY_CHOOSE_TARGET_LIST(f)

\* Variant: the table reserves two leading slots for the initializer.
HWY_EXPORT_TwoReserved(f) ==
  IF SingleTarget(f)
    THEN <<HWY_STATIC_DISPATCH(f)>>
    ELSE <<INIT_SLOT, INIT_SLOT>> \o HWY_CHOOSE_TARGET_LIST(f)
           \o <<HWY_CHOOSE_SCALAR(f)>>

\* Variant: the table ends with a null terminator in place of the Scalar
\* slot.
HWY_EXPORT_NullLast(f) ==
  IF SingleTarget(f)
    THEN <<HWY_STATIC_DISPATCH(f)>>
    ELSE <<INIT_SLOT>> \o HWY_CHOOSE_TARGET_LIST(f) \o <<NULL>>

\* The dispatch table of routine f.
HWY_EXPORT(f) ==
  IF SingleTarget(f)
    THEN <<HWY_STATIC_DISPATCH(f)>>
    ELSE <<INIT_SLOT>> \o HWY_CHOOSE_TARGET_LIST(f) \o <<HWY_CHOOSE_SCALAR(f)>>

\* table[i] with C++'s 0-based index.
TableAt(f, i) == HWY_EXPORT(f)[i + 1]

\* -------------------------------------------- chosen-target cache

\* Capability Detector: a pure function of the host.
SupportedTargets == SupportedSet

\* Table index of the Scalar (baseline) slot.
ScalarIndex == HWY_MAX_DYNAMIC_TARGETS + 1

\* Table index of the highest-priority usable target, else the baseline's.
Resolve(supported) ==
  LET usable == supported \cap CompiledSet
      hits == {i \in 1..HWY_MAX_DYNAMIC_TARGETS : TargetList[i] \in usable}
  IN IF hits = {} THEN ScalarIndex
     ELSE CHOOSE i \in hits : \A j \in hits : i <= j

\* ChosenTarget::Update: publish the resolved pair in one atomic store.
Update(supported) ==
  [state |-> "ready", selectedIndex |-> Resolve(supported)]

\* ChosenTarget::GetIndex: one atomic load; 0 until the cache is ready.
GetIndex ==
  IF chosen_target.state = "ready" THEN chosen_target.selectedIndex ELSE 0

\* ------------------------------------------------------------- Init

\* The process at the end of static initialization: every table is built,
\* the cache is uninitialized and no thread has called yet.
ColdStart ==
  /\ chosen_target = [state |-> "uninitialized", selectedIndex |-> 0]
  /\ terminated = FALSE
  /\ pc = [t \in Threads |-> "idle"]
  /\ fn = [t \in Threads |-> "FloorLog2"]
  /\ arg = [t \in Threads |-> 1]
  /\ idx = [t \in Threads |-> 0]
  /\ det = [t \in Threads |-> {}]
  /\ first = [t \in Threads |-> 0]
  /\ inits = [t \in Threads |-> 0]
  /\ updates = [t \in Threads |-> 0]
  /\ ret = [t \in Threads |-> NoRet]
  /\ ncalls = 0
  /\ resolves = 0

\* Modules built from a compiled set: FloorLog2's module compiles every
\* target of the build, SortU16Asc's may disable some but not the static one.
Modules ==
  /\ HWY_TARGETS \in [Funcs -> SUBSET CompiledSet]
  /\ HWY_TARGETS["FloorLog2"] = CompiledSet
  /\ \A f \in Funcs : HWY_STATIC_TARGET \in HWY_TARGETS[f]

Init ==
  /\ Platform = X86_TARGET_LIST
  /\ HWY_IDE \in BOOLEAN
  /\ unit = NoUnit
  /\ vec = NoVec
  /\ CompiledSet \in (SUBSET Targets) \ {{}}
  /\ SupportedSet \in SUBSET Targets
  /\ Modules
  /\ ColdStart

\* ---------------------------------------------------------- actions

\* HWY_DYNAMIC_DISPATCH(f)(a) in a single-target module: the static
\* target's function is called directly.
StaticDispatch(t, f, a) ==
  /\ ~terminated /\ pc[t] = "idle" /\ ncalls < MaxCalls
  /\ SingleTarget(f)
  /\ fn' = [fn EXCEPT ![t] = f]
  /\ arg' = [arg EXCEPT ![t] = a]
  /\ inits' = [inits EXCEPT ![t] = 0]
  /\ updates' = [updates EXCEPT ![t] = 0]
  /\ idx' = [idx EXCEPT ![t] = 0]
  /\ first' = [first EXCEPT ![t] = 0]
  /\ ret' = [ret EXCEPT ![t] = Apply(HWY_STATIC_DISPATCH(f), a)]
  /\ ncalls' = ncalls + 1
  /\ UNCHANGED <<build, unit, vec, chosen_target, terminated, pc, det,
                 resolves>>

\* Variant: the call site always calls slot 0.
DynamicDispatch_AlwaysInit(t, f, a) ==
  /\ ~terminated /\ pc[t] = "idle" /\ ncalls < MaxCalls
  /\ ~SingleTarget(f)
  /\ fn' = [fn EXCEPT ![t] = f]
  /\ arg' = [arg EXCEPT ![t] = a]
  /\ inits' = [inits EXCEPT ![t] = 0]
  /\ updates' = [updates EXCEPT ![t] = 0]
  /\ idx' = [idx EXCEPT ![t] = 0]
  /\ first' = [first EXCEPT ![t] = 0]
  /\ ret' = [ret EXCEPT ![t] = NoRet]
  /\ pc' = [pc EXCEPT ![t] = "call"]
  /\ ncalls' = ncalls + 1
  /\ UNCHANGED <<build, unit, vec, chosen_target, terminated, det, resolves>>

\* HWY_DYNAMIC_DISPATCH(f)(a) in a multi-target module: load the index
\* from the cache; the indirect call follows.
DynamicDispatch(t, f, a) ==
  /\ ~terminated /\ pc[t] = "idle" /\ ncalls < MaxCalls
  /\ ~SingleTarget(f)
  /\ fn' = [fn EXCEPT ![t] = f]
  /\ arg' = [arg EXCEPT ![t] = a]
  /\ inits' = [inits EXCEPT ![t] = 0]
  /\ updates' = [updates EXCEPT ![t] = 0]
  /\ idx' = [idx EXCEPT ![t] = GetIndex]
  /\ first' = [first EXCEPT ![t] = GetIndex]
  /\ ret' = [ret EXCEPT ![t] = NoRet]
  /\ pc' = [pc EXCEPT ![t] = "call"]
  /\ ncalls' = ncalls + 1
  /\ UNCHANGED <<build, unit, vec, chosen_target, terminated, det, resolves>>

\* The indirect call reaches a variant's implementation, which returns.
CallVariant(t) ==
  /\ ~terminated /\ pc[t] = "call"
  /\ TableAt(fn[t], idx[t]) \notin {INIT_SLOT, NULL}
  /\ ret' = [ret EXCEPT ![t] = Apply(TableAt(fn[t], idx[t]), arg[t])]
  /\ pc' = [pc EXCEPT ![t] = "idle"]
  /\ UNCHANGED <<build, unit, vec, chosen_target, terminated, fn, arg, idx,
                 det, first, inits, updates, ncalls, resolves>>

\* Variant: the initializer forwards without calling Update.
CallInitializer_SkipUpdate(t) ==
  /\ ~terminated /\ pc[t] = "call"
  /\ TableAt(fn[t], idx[t]) = INIT_SLOT
  /\ inits[t] < MaxInits
  /\ inits' = [inits EXCEPT ![t] = inits[t] + 1]
  /\ pc' = [pc EXCEPT ![t] = "getindex"]
  /\ UNCHANGED <<build, unit, vec, chosen_target, terminated, fn, arg, idx,
                 det, first, updates, ret, ncalls, resolves>>

\* The indirect call enters slot 0, ChooseAndCall<table>.
CallInitializer(t) ==
  /\ ~terminated /\ pc[t] = "call"
  /\ TableAt(fn[t], idx[t]) = INIT_SLOT
  /\ inits[t] < MaxInits
  /\ inits' = [inits EXCEPT ![t] = inits[t] + 1]
  /\ pc' = [pc EXCEPT ![t] = "detect"]
  /\ UNCHANGED <<build, unit, vec, chosen_target, terminated, fn, arg, idx,
                 det, first, updates, ret, ncalls, resolves>>

\* The indirect call goes through a null function pointer: undefined
\* behaviour. The process is killed by the fault ...
CallNullFault(t) ==
  /\ ~terminated /\ pc[t] = "call"
  /\ TableAt(fn[t], idx[t]) = NULL
  /\ terminated' = TRUE
  /\ UNCHANGED <<build, unit, vec, chosen_target, pc, fn, arg, idx, det,
                 first, inits, updates, ret, ncalls, resolves>>

\* ... or control lands in some other code of the binary and returns.
CallNullWild(t) ==
  /\ ~terminated /\ pc[t] = "call"
  /\ TableAt(fn[t], idx[t]) = NULL
  /\ \E T \in HWY_TARGETS[fn[t]] :
       ret' = [ret EXCEPT ![t] = Apply(FuncPtr(T, fn[t]), arg[t])]
  /\ pc' = [pc EXCEPT ![t] = "idle"]
  /\ UNCHANGED <<build, unit, vec, chosen_target, terminated, fn, arg, idx,
                 det, first, inits, updates, ncalls, resolves>>

\* ChooseAndCall: chosen_target.Update() runs the Detector ...
UpdateDetect(t) ==
  /\ ~terminated /\ pc[t] = "detect"
  /\ det' = [det EXCEPT ![t] = SupportedTargets]
  /\ updates' = [updates EXCEPT ![t] = updates[t] + 1]
  /\ resolves' = resolves + 1
  /\ pc' = [pc EXCEPT ![t] = "store"]
  /\ UNCHANGED <<build, unit, vec, chosen_target, terminated, fn, arg, idx,
                 first, inits, ret, ncalls>>

\* Variant: the cache is resolved against the targets of the module whose
\* table entered the initializer.
UpdateStore_PerTable(t) ==
  /\ ~terminated /\ pc[t] = "store"
  /\ chosen_target' = Update(det[t] \cap HWY_TARGETS[fn[t]])
  /\ det' = [det EXCEPT ![t] = {}]
  /\ pc' = [pc EXCEPT ![t] = "getindex"]
  /\ UNCHANGED <<build, unit, vec, terminated, fn, arg, idx, first, inits,
                 updates, ret, ncalls, resolves>>

\* Variant: Update acts on a copy of the cache (a ChosenTarget taken by
\* value instead of by reference), so the shared cache is never written.
UpdateStore_LocalCopy(t) ==
  /\ ~terminated /\ pc[t] = "store"
  /\ det' = [det EXCEPT ![t] = {}]
  /\ pc' = [pc EXCEPT ![t] = "getindex"]
  /\ UNCHANGED <<build, unit, vec, chosen_target, terminated, fn, arg, idx,
                 first, inits, updates, ret, ncalls, resolves>>

\* Variant: the pair is stored in two steps, the state before the index.
UpdateStore_StateFirst(t) ==
  /\ ~terminated /\ pc[t] = "store"
  /\ IF chosen_target.state = "uninitialized"
       THEN /\ chosen_target' = [chosen_target EXCEPT !.state = "ready"]
            /\ UNCHANGED <<det, pc>>
       ELSE /\ chosen_target' = Update(det[t])
            /\ det' = [det EXCEPT ![t] = {}]
            /\ pc' = [pc EXCEPT ![t] = "getindex"]
  /\ UNCHANGED <<build, unit, vec, terminated, fn, arg, idx, first, inits,
                 updates, ret, ncalls, resolves>>

\* Variant: the store also strikes the targets the Detector did not report
\* from every module's target set, nulling their table slots.
UpdateStore_PruneTargets(t) ==
  /\ ~terminated /\ pc[t] = "store"
  /\ chosen_target' = Update(det[t])
  /\ HWY_TARGETS' = [f \in Funcs |->
                       HWY_TARGETS[f] \cap (det[t] \cup {HWY_STATIC_TARGET})]
  /\ det' = [det EXCEPT ![t] = {}]
  /\ pc' = [pc EXCEPT ![t] = "getindex"]
  /\ UNCHANGED <<Platform, HWY_IDE, CompiledSet, SupportedSet, unit, vec,
                 terminated, fn, arg, idx, first, inits, updates, ret,
                 ncalls, resolves>>

\* ... and stores the resolved cache.
UpdateStore(t) ==
  /\ ~terminated /\ pc[t] = "store"
  /\ chosen_target' = Update(det[t])
  /\ det' = [det EXCEPT ![t] = {}]
  /\ pc' = [pc EXCEPT ![t] = "getindex"]
  /\ UNCHANGED <<build, unit, vec, terminated, fn, arg, idx, first, inits,
                 updates, ret, ncalls, resolves>>

\* Variant: the initializer indexes its table by the best supported target
\* of its own module instead of the index the cache holds.
ChooseAndCall_GetIndex_OwnTargets(t) ==
  /\ ~terminated /\ pc[t] = "getindex"
  /\ LET hits == {i \in 1..HWY_MAX_DYNAMIC_TARGETS :
                    TargetList[i] \in SupportedSet \cap HWY_TARGETS[fn[t]]}
     IN idx' = [idx EXCEPT ![t] = IF hits = {} THEN HWY_MAX_DYNAMIC_TARGETS + 1
                                  ELSE CHOOSE i \in hits : \A j \in hits : i <= j]
  /\ pc' = [pc EXCEPT ![t] = "call"]
  /\ UNCHANGED <<build, unit, vec, chosen_target, terminated, fn, arg, det,
                 first, inits, updates, ret, ncalls, resolves>>

\* Variant: the initializer calls the table with the index its caller had
\* read before Update.
ChooseAndCall_GetIndex_Stale(t) ==
  /\ ~terminated /\ pc[t] = "getindex"
  /\ idx' = [idx EXCEPT ![t] = first[t]]
  /\ pc' = [pc EXCEPT ![t] = "call"]
  /\ UNCHANGED <<build, unit, vec, chosen_target, terminated, fn, arg, det,
                 first, inits, updates, ret, ncalls, resolves>>

\* ChooseAndCall: table[chosen_target.GetIndex()](args...).
ChooseAndCall_GetIndex(t) ==
  /\ ~terminated /\ pc[t] = "getindex"
  /\ idx' = [idx EXCEPT ![t] = GetIndex]
  /\ pc' = [pc EXCEPT ![t] = "call"]
  /\ UNCHANGED <<build, unit, vec, chosen_target, terminated, fn, arg, det,
                 first, inits, updates, ret, ncalls, resolves>>

Next ==
  \/ \E t \in Threads, f \in Funcs :
       \E a \in ArgsOf(f) : StaticDispatch(t, f, a)
  \/ \E t \in Threads, f \in Funcs :
       \E a \in ArgsOf(f) : DynamicDispatch(t, f, a)
  \/ \E t \in Threads : CallVariant(t)
  \/ \E t \in Threads : CallInitializer(t)
  \/ \E t \in Threads : CallNullFault(t)
  \/ \E t \in Threads : CallNullWild(t)
  \/ \E t \in Threads : UpdateDetect(t)
  \/ \E t \in Threads : UpdateStore(t)
  \/ \E t \in Threads : ChooseAndCall_GetIndex(t)

Spec == Init /\ [][Next]_vars

\* One step of thread t inside a dispatch call it has started.
ThreadStep(t) ==
  \/ CallVariant(t)
  \/ CallInitializer(t)
  \/ CallNullFault(t)
  \/ CallNullWild(t)
  \/ UpdateDetect(t)
  \/ UpdateStore(t)
  \/ ChooseAndCall_GetIndex(t)

\* The dispatch code is straight-line and takes no lock, and the variant
\* and the Detector return: a thread inside a call is scheduled again and
\* takes its next step.
Fairness == \A t \in Threads : WF_vars(ThreadStep(t))

\* The multi-target builds with and without Scalar, on every host.
InitFair ==
  /\ Platform = X86_TARGET_LIST
  /\ HWY_IDE = FALSE
  /\ unit = NoUnit
  /\ vec = NoVec
  /\ CompiledSet \in {Targets, Targets \ {HWY_SCALAR}}
  /\ SupportedSet \in SUBSET Targets
  /\ Modules
  /\ ColdStart

SpecFair == InitFair /\ [][Next]_vars /\ Fairness

\* The builds of the spec's two resolution scenarios and their neighbours:
\* an x86 platform whose list starts with AVX3, or an Arm platform with
\* NEON; the build compiles every target of the platform or Scalar alone;
\* any Detector answer.
InitScenario ==
  /\ Platform \in {X86_AVX3_TARGET_LIST, ARM_TARGET_LIST}
  /\ HWY_IDE = FALSE
  /\ unit = NoUnit
  /\ vec = NoVec
  /\ CompiledSet \in {Targets, {HWY_SCALAR}}
  /\ SupportedSet \in SUBSET Targets
  /\ Modules
  /\ ColdStart

SpecScenario == InitScenario /\ [][Next]_vars

\* ------------------------------------------- compiling a translation unit
\* A source file such as hwy/examples/skeleton.cc is compiled in passes:
\* hwy/foreach_target.h re-includes it once per enabled target other than
\* the static one, and the rest of the file is the static target's pass.

\* Routine the translation unit defines and exports.
UNIT_FUNC == "FloorLog2"

\* Targets that have a HWY_CHOOSE_* macro, in the order of highway.h.
ChooseTargets ==
  <<"WASM2", "WASM", "RVV", "NEON", "SVE", "SVE2", "PPC8", "SSSE3", "SSE4",
    "AVX2", "AVX3", "AVX3_DL">>
ChooseTargetSet == {ChooseTargets[i] : i \in 1..Len(ChooseTargets)}

\* Dynamic target lists of the platforms a unit is compiled for.
PlatformLists ==
  { <<"AVX3_DL", "AVX3", "AVX2", "SSE4", "SSSE3">>, <<"SVE2", "SVE", "NEON">>,
    <<"PPC8">>, <<"WASM2", "WASM">>, <<"RVV">> }

\* namespace HWY_NAMESPACE of the pass for target T.
HWY_NAMESPACE(T) == "N_" \o T
\* The function N_<T>::f that T's pass defines.
Symbol(T, f) == [ns |-> HWY_NAMESPACE(T), func |-> f]
\* Name of the macro the dispatch table uses for target T.
MacroName(T) == "HWY_CHOOSE_" \o T

\* The #if/#else pair that defines target T's macro: in each branch the
\* macro's name as written there and the namespace its body names.
ChooseMacro(T, targets) ==
  IF T \in targets
    THEN [name |-> IF T = "PPC8" THEN "HWY_CHOOSE_PCC8" ELSE MacroName(T),
          body |-> HWY_NAMESPACE(T)]
    ELSE [name |-> MacroName(T), body |-> "nullptr"]

\* All HWY_CHOOSE_* macros highway.h defines for a unit's HWY_TARGETS.
ChooseMacros(targets) == {ChooseMacro(T, targets) : T \in ChooseTargetSet}

\* MACRO(f) expanded.
Expand(m, f) ==
  IF m.body = "nullptr" THEN NULL ELSE [ns |-> m.body, func |-> f]

\* Variant: HWY_ONCE defaults to 0.
HWY_ONCE_Default_Zero(defined, value) == IF defined THEN value ELSE 0

\* #ifndef HWY_ONCE / #define HWY_ONCE 1
HWY_ONCE_Default(defined, value) == IF defined THEN value ELSE 1

\* The static target of a unit: the last enabled one, Scalar if none.
StaticTargetOf(targets) ==
  IF targets = {} THEN HWY_SCALAR ELSE Lowest(targets)

\* Passes of a unit: with foreach_target.h one per enabled target, the
\* static target's last; without it the static target's only.
PassesOf(targets, foreach) ==
  IF foreach
    THEN SelectSeq(PriorityOrder,
                   LAMBDA T : T \in targets /\ T # StaticTargetOf(targets))
           \o <<StaticTargetOf(targets)>>
    ELSE <<StaticTargetOf(targets)>>

\* A unit before its first line is read.
NewUnit(targets, foreach) ==
  [status |-> "start", error |-> "", targets |-> targets, foreach |-> foreach,
   static |-> HWY_SCALAR, todo |-> <<>>, step |-> "begin",
   HWY_TARGET |-> HWY_SCALAR, once_defined |-> FALSE, HWY_ONCE |-> 0,
   included |-> FALSE, per_target |-> FALSE, toggle |-> FALSE,
   macros |-> {}, ops |-> <<>>, symbols |-> {}, passes |-> <<>>,
   tables |-> 0, table |-> <<>>, includes |-> 0]

Fail(u, msg) == [u EXCEPT !.status = "error", !.error = msg]

\* The end of a pass: foreach_target.h flips HWY_TARGET_TOGGLE and goes on
\* to the next target; after the static target's pass the unit is done.
EndPass(u) ==
  [u EXCEPT !.passes = Append(u.passes,
                              [target |-> u.HWY_TARGET, once |-> u.HWY_ONCE]),
            !.todo = Tail(u.todo),
            !.toggle = IF u.foreach THEN ~u.toggle ELSE u.toggle,
            !.step = "begin",
            !.includes = 0,
            !.status = IF Tail(u.todo) = <<>> THEN "done" ELSE "compiling"]

\* Everything outside the unit under compilation.
process == <<build, vec, chosen_target, terminated, pc, fn, arg, idx, det,
             first, inits, updates, ret, ncalls, resolves>>

\* Variant: an empty HWY_TARGETS is not rejected.
DetectTargets_NoCheck ==
  /\ unit.status = "start"
  /\ unit' = [unit EXCEPT !.status = "compiling",
                          !.static = StaticTargetOf(unit.targets),
                          !.todo = PassesOf(unit.targets, unit.foreach)]
  /\ UNCHANGED process

\* hwy/detect_targets.h: an empty HWY_TARGETS is a build error; otherwise
\* HWY_STATIC_TARGET is fixed and the passes are laid out.
DetectTargets ==
  /\ unit.status = "start"
  /\ unit' = IF unit.targets = {}
               THEN Fail(unit, "no target enabled")
               ELSE [unit EXCEPT !.status = "compiling",
                                 !.static = StaticTargetOf(unit.targets),
                                 !.todo = PassesOf(unit.targets, unit.foreach)]
  /\ UNCHANGED process

\* foreach_target.h starts the pass of the next target: it sets HWY_TARGET
\* and defines HWY_ONCE as 1 for the static target and 0 for the others.
\* Without foreach_target.h the only pass leaves HWY_ONCE as it was.
BeginPass ==
  /\ unit.status = "compiling" /\ unit.step = "begin"
  /\ unit' = [unit EXCEPT !.HWY_TARGET = Head(unit.todo),
                          !.once_defined = unit.foreach \/ unit.once_defined,
                          !.HWY_ONCE = IF ~unit.foreach THEN unit.HWY_ONCE
                                       ELSE IF Head(unit.todo) = unit.static
                                         THEN 1 ELSE 0,
                          !.includes = 0,
                          !.step = "highway"]
  /\ UNCHANGED process

\* The part of highway.h under the include guard HWY_HIGHWAY_INCLUDED: it
\* is read on the first inclusion in the unit only.
OncePart(u) ==
  IF u.included THEN u
  ELSE [u EXCEPT !.included = TRUE,
                 !.once_defined = TRUE,
                 !.HWY_ONCE = HWY_ONCE_Default(u.once_defined, u.HWY_ONCE),
                 !.macros = ChooseMacros(u.targets)]

\* Variant: the per-target section has no guard.
PerTargetSection_Unguarded(u) ==
  IF u.HWY_TARGET = "PPC8"
    THEN Fail(u, "PPC is not yet supported")
    ELSE [u EXCEPT !.ops = Append(u.ops, u.HWY_TARGET)]

\* The per-target section of highway.h: read when HWY_HIGHWAY_PER_TARGET
\* and HWY_TARGET_TOGGLE are both defined or both undefined; it flips
\* HWY_HIGHWAY_PER_TARGET and includes the ops of HWY_TARGET.
PerTargetSection(u) ==
  IF u.per_target # u.toggle THEN u
  ELSE IF u.HWY_TARGET = "PPC8"
    THEN Fail([u EXCEPT !.per_target = ~u.per_target],
              "PPC is not yet supported")
    ELSE [u EXCEPT !.per_target = ~u.per_target,
                   !.ops = Append(u.ops, u.HWY_TARGET)]

\* One inclusion of highway.h.
HighwayH(u) ==
  [PerTargetSection(OncePart(u)) EXCEPT !.includes = u.includes + 1]

\* #include "hwy/highway.h", the first of the pass.
IncludeHighway ==
  /\ unit.status = "compiling" /\ unit.step = "highway"
  /\ LET u2 == HighwayH(unit)
     IN unit' = IF u2.status = "error" THEN u2
                ELSE [u2 EXCEPT !.step = "namespace"]
  /\ UNCHANGED process

\* A further #include "hwy/highway.h" in the same pass, through another
\* header.
IncludeHighwayAgain ==
  /\ unit.status = "compiling" /\ unit.step \in {"namespace", "once"}
  /\ unit.includes < MaxIncludes
  /\ unit' = HighwayH(unit)
  /\ UNCHANGED process

\* Variant: every pass defines the routine in one shared namespace.
DefineNamespace_Shared ==
  /\ unit.status = "compiling" /\ unit.step = "namespace"
  /\ LET sym == [ns |-> "N_SIMD", func |-> UNIT_FUNC]
     IN unit' = IF sym \in unit.symbols
                  THEN Fail(unit, "redefinition")
                  ELSE [unit EXCEPT !.symbols = unit.symbols \cup {sym},
                                    !.step = "once"]
  /\ UNCHANGED process

\* namespace HWY_NAMESPACE { ... }: the pass defines the routine in the
\* namespace of its target; defining a function twice is an error.
DefineNamespace ==
  /\ unit.status = "compiling" /\ unit.step = "namespace"
  /\ LET sym == Symbol(unit.HWY_TARGET, UNIT_FUNC)
     IN unit' = IF sym \in unit.symbols
                  THEN Fail(unit, "redefinition")
                  ELSE [unit EXCEPT !.symbols = unit.symbols \cup {sym},
                                    !.step = "once"]
  /\ UNCHANGED process

\* #if HWY_ONCE is false: the export block is skipped in this pass.
SkipExport ==
  /\ unit.status = "compiling" /\ unit.step = "once"
  /\ unit.HWY_ONCE = 0
  /\ unit' = EndPass(unit)
  /\ UNCHANGED process

\* The slots HWY_EXPORT(UNIT_FUNC) lists; "undeclared" stands for a name
\* the compiler cannot resolve.
UnitTable ==
  LET static == Symbol(unit.static, UNIT_FUNC)
      slot(T) ==
        IF \E m \in unit.macros : m.name = MacroName(T)
          THEN Expand(CHOOSE m \in unit.macros : m.name = MacroName(T),
                      UNIT_FUNC)
          ELSE [ns |-> "undeclared", func |-> MacroName(T)]
      scalar == IF HWY_SCALAR \in unit.targets
                  THEN Symbol(HWY_SCALAR, UNIT_FUNC) ELSE static
  IN IF HWY_IDE \/ Cardinality(unit.targets) <= 1
       THEN <<static>>
       ELSE <<INIT_SLOT>> \o [i \in 1..Len(TargetList) |-> slot(TargetList[i])]
              \o <<scalar>>

\* #if HWY_ONCE is true: HWY_EXPORT defines the dispatch table. Every
\* name in it must resolve and the table must not exist already.
ExportTable ==
  /\ unit.status = "compiling" /\ unit.step = "once"
  /\ unit.HWY_ONCE # 0
  /\ LET T == UnitTable
         known == unit.symbols \cup {NULL, INIT_SLOT}
     IN unit' =
          IF unit.tables >= 1 THEN Fail(unit, "redefinition")
          ELSE IF \E i \in 1..Len(T) : T[i] \notin known
            THEN Fail(unit, "undeclared")
            ELSE EndPass([unit EXCEPT !.tables = unit.tables + 1,
                                      !.table = T])
  /\ UNCHANGED process

InitBuild ==
  /\ Platform \in PlatformLists
  /\ HWY_IDE \in BOOLEAN
  /\ \E targets \in SUBSET Targets, foreach \in BOOLEAN :
       unit = NewUnit(targets, foreach)
  /\ vec = NoVec
  /\ CompiledSet = {HWY_SCALAR}
  /\ SupportedSet = {HWY_SCALAR}
  /\ HWY_TARGETS = [f \in Funcs |-> {HWY_SCALAR}]
  /\ ColdStart

NextBuild ==
  \/ DetectTargets
  \/ BeginPass
  \/ IncludeHighway
  \/ IncludeHighwayAgain
  \/ DefineNamespace
  \/ SkipExport
  \/ ExportTable

SpecBuild == InitBuild /\ [][NextBuild]_vars

\* ------------------------------------------------ vector logical ops
\* hwy/tests/logical_test.cc, TestLogicalInteger, on vectors of NumLanes
\* unsigned lanes of LaneBits bits.

Lanes == 1..NumLanes
\* The lane with all bits set.
LaneMax == 2^LaneBits - 1
LaneValues == 0..LaneMax
Vectors == [Lanes -> LaneValues]

\* Bitwise combination of the low n bits of x and y by the truth table tt.
RECURSIVE Bitwise(_, _, _, _)
Bitwise(tt, x, y, n) ==
  IF n = 0 THEN 0
  ELSE tt[x % 2][y % 2] + 2 * Bitwise(tt, x \div 2, y \div 2, n - 1)

AndBits == [p \in {0, 1} |-> [q \in {0, 1} |-> IF p = 1 /\ q = 1 THEN 1 ELSE 0]]
OrBits == [p \in {0, 1} |-> [q \in {0, 1} |-> IF p = 1 \/ q = 1 THEN 1 ELSE 0]]
XorBits == [p \in {0, 1} |-> [q \in {0, 1} |-> IF p # q THEN 1 ELSE 0]]

Zero == [i \in Lanes |-> 0]
Set(x) == [i \in Lanes |-> x % (LaneMax + 1)]
Iota(first_lane) == [i \in Lanes |-> (first_lane + i - 1) % (LaneMax + 1)]
\* Eq: a mask, true in the lanes where the operands are equal.
Eq(a, b) == [i \in Lanes |-> a[i] = b[i]]
\* VecFromMask: all bits set in the lanes where the mask is true.
VecFromMask(m) == [i \in Lanes |-> IF m[i] THEN LaneMax ELSE 0]

Not(a) == [i \in Lanes |-> LaneMax - a[i]]
And(a, b) == [i \in Lanes |-> Bitwise(AndBits, a[i], b[i], LaneBits)]
Or(a, b) == [i \in Lanes |-> Bitwise(OrBits, a[i], b[i], LaneBits)]
Xor(a, b) == [i \in Lanes |-> Bitwise(XorBits, a[i], b[i], LaneBits)]
\* AndNot(not_mask, mask) = ~not_mask & mask.
AndNot(a, b) == And(Not(a), b)
\* OrAnd(o, a1, a2) = o | (a1 & a2).
OrAnd(o, a, b) == Or(o, And(a, b))

\* const auto ones = VecFromMask(d, Eq(v0, v0));
Ones == VecFromMask(Eq(Zero, Zero))

\* A test about to run on vector v.
NewVec(v) ==
  [op |-> "start", v |-> v, a |-> Zero, b |-> Zero, c |-> Zero, out |-> Zero]

Ran(op, a, b, c, out) ==
  [vec EXCEPT !.op = op, !.a = a, !.b = b, !.c = c, !.out = out]

\* Everything outside the vector test.
rest == <<build, unit, chosen_target, terminated, pc, fn, arg, idx, det,
          first, inits, updates, ret, ncalls, resolves>>

\* Not(ones), Not(v0), Not(vnot1), Not(v1)
TestNot ==
  /\ vec.op = "start"
  /\ \E a \in {Zero, Ones, Set(1), Set(LaneMax - 1)} :
       vec' = Ran("Not", a, Zero, Zero, Not(a))
  /\ UNCHANGED rest

\* And(v0, vi), And(vi, v0), And(vi, vi)
TestAnd ==
  /\ vec.op = "start"
  /\ \E a \in {Zero, vec.v}, b \in {Zero, vec.v} :
       vec' = Ran("And", a, b, Zero, And(a, b))
  /\ UNCHANGED rest

\* Or(v0, vi), Or(vi, v0), Or(vi, vi)
TestOr ==
  /\ vec.op = "start"
  /\ \E a \in {Zero, vec.v}, b \in {Zero, vec.v} :
       vec' = Ran("Or", a, b, Zero, Or(a, b))
  /\ UNCHANGED rest

\* Xor(v0, vi), Xor(vi, v0), Xor(vi, vi)
TestXor ==
  /\ vec.op = "start"
  /\ \E a \in {Zero, vec.v}, b \in {Zero, vec.v} :
       vec' = Ran("Xor", a, b, Zero, Xor(a, b))
  /\ UNCHANGED rest

\* Variant: the operands are passed in the other order.
TestAndNot_Swapped ==
  /\ vec.op = "start"
  /\ \E a \in {Zero, vec.v}, b \in {Zero, vec.v} :
       vec' = Ran("AndNot", a, b, Zero, AndNot(b, a))
  /\ UNCHANGED rest

\* AndNot(v0, vi), AndNot(vi, v0), AndNot(vi, vi)
TestAndNot ==
  /\ vec.op = "start"
  /\ \E a \in {Zero, vec.v}, b \in {Zero, vec.v} :
       vec' = Ran("AndNot", a, b, Zero, AndNot(a, b))
  /\ UNCHANGED rest

\* OrAnd(o, a1, a2) for o, a1, a2 each v0 or vi
TestOrAnd ==
  /\ vec.op = "start"
  /\ \E o \in {Zero, vec.v}, a \in {Zero, vec.v}, b \in {Zero, vec.v} :
       vec' = Ran("OrAnd", o, a, b, OrAnd(o, a, b))
  /\ UNCHANGED rest

InitLanes ==
  /\ Platform = X86_TARGET_LIST
  /\ HWY_IDE = FALSE
  /\ unit = NoUnit
  /\ \E v \in Vectors : vec = NewVec(v)
  /\ CompiledSet = {HWY_SCALAR}
  /\ SupportedSet = {HWY_SCALAR}
  /\ HWY_TARGETS = [f \in Funcs |-> {HWY_SCALAR}]
  /\ ColdStart

NextLanes ==
  \/ TestNot
  \/ TestAnd
  \/ TestOr
  \/ TestXor
  \/ TestAndNot
  \/ TestOrAnd

SpecLanes == InitLanes /\ [][NextLanes]_vars

\* ------------------------------------------------ blockwise lane shifts
\* hwy/tests/blockwise_test.cc, TestShiftLeftLanes and TestShiftRightLanes,
\* on vectors of N lanes of a type of sizeof(T) bytes. Lanes are numbered
\* from 0 as in the test.

\* Bytes of a block.
BlockBytes == 16
\* sizeof(T) of the lane types.
LaneSizes == {1, 2, 4, 8}
\* Lanes(d) of the full and partial vectors.
LaneCounts == {2^k : k \in 0..MaxLog2Lanes}

\* constexpr size_t kLanesPerBlock = 16 / sizeof(T);
kLanesPerBlock(size) == BlockBytes \div size

\* Iota(d, first_lane) on N lanes.
IotaN(N, first_lane) == [i \in 0..(N - 1) |-> first_lane + i]

\* Lanes i and j of a vector lie in the same block.
SameBlock(size, i, j) ==
  i \div kLanesPerBlock(size) = j \div kLanesPerBlock(size)

\* ShiftLeftLanes<k>(d, v): every lane moves up by k within its block;
\* zeros are shifted in.
ShiftLeftLanes(k, size, v) ==
  LET N == Cardinality(DOMAIN v)
  IN [i \in 0..(N - 1) |->
        IF i - k >= 0 /\ SameBlock(size, i, i - k) THEN v[i - k] ELSE 0]

\* ShiftRightLanes<k>(d, v): every lane moves down by k within its block;
\* zeros are shifted in, also past the last lane of a partial vector.
ShiftRightLanes(k, size, v) ==
  LET N == Cardinality(DOMAIN v)
  IN [i \in 0..(N - 1) |->
        IF i + k <= N - 1 /\ SameBlock(size, i, i + k) THEN v[i + k] ELSE 0]

\* A shift test about to run on Iota(d, first_lane).
NewShift(size, N, first_lane) ==
  [op |-> "start", size |-> size, N |-> N, v |-> IotaN(N, first_lane),
   k |-> 0, out |-> IotaN(N, first_lane)]

\* Variant: the test of ShiftLeftLanes calls ShiftRightLanes.
TestShiftLeftLanes_Right ==
  /\ vec.op = "start"
  /\ \E k \in {0, 1} :
       vec' = [vec EXCEPT !.op = "ShiftLeftLanes", !.k = k,
                          !.out = ShiftRightLanes(k, vec.size, vec.v)]
  /\ UNCHANGED rest

\* ShiftLeftLanes<0>(d, v), ShiftLeftLanes<1>(d, v)
TestShiftLeftLanes ==
  /\ vec.op = "start"
  /\ \E k \in {0, 1} :
       vec' = [vec EXCEPT !.op = "ShiftLeftLanes", !.k = k,
                          !.out = ShiftLeftLanes(k, vec.size, vec.v)]
  /\ UNCHANGED rest

\* ShiftRightLanes<0>(d, v), ShiftRightLanes<1>(d, v)
TestShiftRightLanes ==
  /\ vec.op = "start"
  /\ \E k \in {0, 1} :
       vec' = [vec EXCEPT !.op = "ShiftRightLanes", !.k = k,
                          !.out = ShiftRightLanes(k, vec.size, vec.v)]
  /\ UNCHANGED rest

InitShift ==
  /\ Platform = X86_TARGET_LIST
  /\ HWY_IDE = FALSE
  /\ unit = NoUnit
  /\ \E size \in LaneSizes, N \in LaneCounts, first_lane \in 1..MaxFirst :
       vec = NewShift(size, N, first_lane)
  /\ CompiledSet = {HWY_SCALAR}
  /\ SupportedSet = {HWY_SCALAR}
  /\ HWY_TARGETS = [f \in Funcs |-> {HWY_SCALAR}]
  /\ ColdStart

NextShift ==
  \/ TestShiftLeftLanes
  \/ TestShiftRightLanes

SpecShift == InitShift /\ [][NextShift]_vars

\* ------------------------------------------------- vocabulary of the claims

Ready == chosen_target.state = "ready"
\* Targets both detected on the host and compiled into the build.
Usable == SupportedSet \cap CompiledSet
BaselineTarget == HWY_STATIC_TARGET
\* Routine f is dispatched through a multi-target table.
Dynamic(f) == ~SingleTarget(f)
\* The slot the cache selects in the table of routine f.
SelectedSlot(f) == TableAt(f, chosen_target.selectedIndex)
\* The target whose implementation the cache selects for routine f.
ChosenId(f) == SelectedSlot(f).ns
\* Thread t has returned from a dispatch call.
Returned(t) == pc[t] = "idle" /\ ret[t] # NoRet
\* Thread t has returned from a call that went through the initializer.
ReturnedCold(t) == Returned(t) /\ Dynamic(fn[t]) /\ inits[t] >= 1
\* The slot thread t called last is not null.
NonNull(t) == TableAt(fn[t], idx[t]) # NULL
\* Thread t has not started any call.
NeverCalled(t) == pc[t] = "idle" /\ ret[t] = NoRet
\* Executions of Update that have completed their store.
CompletedUpdates == resolves - Cardinality({u \in Threads : pc[u] = "store"})
\* The compiled dynamic targets of routine f's module, in priority order.
CompiledDynamic(f) ==
  SelectSeq(TargetList, LAMBDA T : T \in HWY_TARGETS[f])

TypeOK ==
  /\ chosen_target.selectedIndex \in 0..ScalarIndex
  /\ \A t \in Threads : pc[t] \in {"idle", "call", "detect", "store", "getindex"}

\* ------------------------------------------------------------ claims

\* C1 (as amended): once resolved, the slot the cache selects holds, for
\* every routine whose slot there is not null, the implementation of the
\* highest-priority member of SupportedSet \cap CompiledSet, or of
\* BaselineTarget when that intersection is empty; BaselineTarget is
\* selected exactly when the intersection holds no target other than
\* BaselineTarget; and a call through the initializer invokes that target.
C1_ResolveSelectsHighestUsable ==
  LET expected == IF Usable = {} THEN BaselineTarget ELSE Highest(Usable)
  IN /\ Ready =>
          \A f \in Funcs :
            (Dynamic(f) /\ SelectedSlot(f) # NULL) =>
               /\ ChosenId(f) = expected
               /\ (ChosenId(f) = BaselineTarget) <=>
                     (Usable \ {BaselineTarget} = {})
     /\ \A t \in Threads :
          (ReturnedCold(t) /\ NonNull(t)) => ret[t].ns = expected

\* C1 witness: a cold call returned after resolving to a dynamic target
\* although BaselineTarget is usable too.
C1_Witness ==
  \E t \in Threads :
    /\ ReturnedCold(t) /\ NonNull(t)
    /\ Cardinality(Usable) >= 2
    /\ ret[t].ns = Highest(Usable)
    /\ BaselineTarget \in Usable

\* C1 (original): ChosenId is the highest-priority member of the
\* intersection, and is BaselineTarget exactly when the intersection is
\* empty.
C1_Original ==
  Ready =>
    \A f \in Funcs :
      (Dynamic(f) /\ SelectedSlot(f) # NULL) =>
         /\ Usable # {} => ChosenId(f) = Highest(Usable)
         /\ (ChosenId(f) = BaselineTarget) <=> (Usable = {})

C3_ReadyCacheFrozen ==
  [][Ready =>
       /\ chosen_target' = chosen_target
       /\ \A t \in Threads :
            (pc[t] = "idle" /\ pc'[t] = "call") =>
               idx'[t] = chosen_target.selectedIndex]_vars

\* C3 witness: two threads have each completed a store, so the second
\* store hit a cache that was already ready.
C3_Witness ==
  \E t \in Threads, u \in Threads :
    /\ t # u /\ resolves = 2
    /\ updates[t] = 1 /\ pc[t] \in {"getindex", "call", "idle"}
    /\ updates[u] = 1 /\ pc[u] \in {"getindex", "call", "idle"}

C5_AtomicPublication ==
  LET final == Resolve(SupportedTargets)
  IN /\ chosen_target \in {[state |-> "uninitialized", selectedIndex |-> 0],
                            [state |-> "ready", selectedIndex |-> final]}
     /\ GetIndex \in {0, final}
     /\ \A t \in Threads : idx[t] \in {0, final} /\ first[t] \in {0, final}

\* C5 witness: a thread holds the resolved index it read while another
\* thread is still inside Update, about to store.
C5_Witness ==
  \E t \in Threads, u \in Threads :
    /\ pc[t] = "call" /\ idx[t] # 0 /\ idx[t] = chosen_target.selectedIndex
    /\ pc[u] = "store"

\* C6: a dispatch call that read the cache as not ready calls slot 0, the
\* initializer, which resolves the cache before it reads the index again;
\* the call returns the result of the slot it was forwarded to, applied to
\* the same arguments. A call that read the cache as ready has a non-zero
\* index, never enters the initializer and returns the selected slot's
\* result.
C6_CallThroughInv ==
  \A t \in Threads :
    /\ (pc[t] = "call" /\ first[t] = 0 /\ inits[t] = 0) =>
          TableAt(fn[t], idx[t]) = INIT_SLOT
    /\ pc[t] \in {"detect", "store"} => (first[t] = 0 /\ idx[t] = 0)
    /\ pc[t] = "getindex" => (first[t] = 0 /\ Ready /\ updates[t] = 1)
    /\ first[t] # 0 =>
          (inits[t] = 0 /\ pc[t] \in {"call", "idle"} /\ idx[t] = first[t])
    /\ (Returned(t) /\ Dynamic(fn[t]) /\ NonNull(t)) =>
          /\ ret[t] = Apply(TableAt(fn[t], idx[t]), arg[t])
          /\ idx[t] # 0 /\ idx[t] = GetIndex
          /\ first[t] = 0 => inits[t] = 1

C7_ResolutionCount ==
  \A t \in Threads :
    /\ updates[t] <= 1
    /\ (Returned(t) /\ Dynamic(fn[t])) =>
          updates[t] = (IF first[t] = 0 THEN 1 ELSE 0)
    /\ (Returned(t) /\ ~Dynamic(fn[t])) => updates[t] = 0
    /\ first[t] # 0 =>
          (updates[t] = 0 /\ pc[t] \notin {"detect", "store", "getindex"})
    /\ (\A u \in Threads \ {t} : NeverCalled(u)) =>
          /\ resolves <= 1
          /\ (Returned(t) /\ Dynamic(fn[t])) => resolves = 1
          /\ (resolves = 1 /\ pc[t] = "call" /\ inits[t] = 0) =>
                (first[t] # 0 /\ updates[t] = 0)

\* C7 witness: one thread alone has made all the calls; its last one read
\* a ready cache and returned without running Update.
C7_Witness ==
  \E t \in Threads :
    /\ \A u \in Threads \ {t} : NeverCalled(u)
    /\ ncalls = MaxCalls /\ resolves = 1
    /\ Returned(t) /\ Dynamic(fn[t]) /\ first[t] # 0 /\ updates[t] = 0

\* C8: once some routine's initializer has completed its Update, every
\* dispatch call that starts afterwards, of whichever routine and table,
\* reads a non-zero index whose slot is not the initializer.
C8_SharedCache ==
  [][\A t \in Threads :
       (pc[t] = "idle" /\ pc'[t] = "call" /\ CompletedUpdates >= 1) =>
          /\ first'[t] # 0
          /\ TableAt(fn'[t], first'[t]) # INIT_SLOT
          /\ inits'[t] = 0]_vars

\* C8 witness: one thread went through the initializer of one routine; a
\* call of the other routine, by another thread, then read a ready cache.
C8_Witness ==
  \E t \in Threads, u \in Threads :
    /\ t # u /\ ReturnedCold(u)
    /\ fn[t] # fn[u] /\ Dynamic(fn[t])
    /\ pc[t] = "call" /\ first[t] # 0 /\ inits[t] = 0
    /\ resolves = 1

\* C9: a dispatch call whose selected table slot is null never returns
\* (the process is terminated instead).
C9_FatalSlot ==
  \A t \in Threads : (Returned(t) /\ Dynamic(fn[t])) => NonNull(t)

\* C10 (as amended): every multi-target table has HWY_MAX_DYNAMIC_TARGETS
\* + 2 slots: the initializer in slot 0, then one slot per dynamic target
\* of the platform's list in priority order, holding the target's
\* implementation if the target is compiled and null otherwise, then the
\* Scalar slot, which is never null.
C10_TableLayout ==
  \A f \in Funcs :
    Dynamic(f) =>
      LET tbl == HWY_EXPORT(f)
          slots == 1..HWY_MAX_DYNAMIC_TARGETS
      IN /\ Len(tbl) = HWY_MAX_DYNAMIC_TARGETS + 2
         /\ tbl[1] = INIT_SLOT
         /\ \A i \in 2..Len(tbl) : tbl[i] # INIT_SLOT
         /\ \A T \in HWY_TARGETS[f] \ {HWY_SCALAR} :
              Cardinality({i \in slots : tbl[i + 1] = FuncPtr(T, f)}) = 1
         /\ \A i \in slots :
              tbl[i + 1] # NULL =>
                 (tbl[i + 1].ns \in HWY_TARGETS[f] /\ Rank(tbl[i + 1].ns) = i)
         /\ tbl[Len(tbl)] \in {FuncPtr(HWY_SCALAR, f), HWY_STATIC_DISPATCH(f)}
         /\ tbl[Len(tbl)].ns \in HWY_TARGETS[f]

\* C10 witness: a call returned through a multi-target table that holds a
\* null slot for a target that is not compiled.
C10_Witness ==
  \E t \in Threads :
    /\ Returned(t) /\ Dynamic(fn[t]) /\ NonNull(t)
    /\ \E i \in 1..HWY_MAX_DYNAMIC_TARGETS : TableAt(fn[t], i) = NULL

\* C10 (original): every multi-target table is the initializer followed
\* by exactly one slot per compiled target in priority order, the Scalar
\* slot last.
C10_Original ==
  \A f \in Funcs :
    Dynamic(f) =>
      LET tbl == HWY_EXPORT(f)
          dyn == CompiledDynamic(f)
      IN /\ Len(tbl) = Len(dyn) + 2
         /\ tbl[1] = INIT_SLOT
         /\ \A k \in 1..Len(dyn) : tbl[k + 1] = FuncPtr(dyn[k], f)
         /\ tbl[Len(tbl)] = HWY_CHOOSE_SCALAR(f)

StaticBuild(f) == HWY_IDE \/ Cardinality(HWY_TARGETS[f]) = 1

C13_StaticInv ==
  /\ \A f \in Funcs :
       StaticBuild(f) => HWY_EXPORT(f) = <<FuncPtr(HWY_STATIC_TARGET, f)>>
  /\ \A t \in Threads :
       (Returned(t) /\ StaticBuild(fn[t])) =>
          /\ ret[t] = Apply(FuncPtr(HWY_STATIC_TARGET, fn[t]), arg[t])
          /\ inits[t] = 0 /\ updates[t] = 0
  /\ (\A f \in Funcs : StaticBuild(f)) => (~Ready /\ resolves = 0)

\* C13: when one target is compiled or HWY_IDE is on, the exported table
\* has one slot holding the static target's implementation; every dispatch
\* call runs that implementation in one step, without entering the
\* initializer or the Detector and leaving the cache as it was; and if all
\* routines are built so, the cache is never resolved.
C13_StaticDispatch ==
  /\ []C13_StaticInv
  /\ [][(ncalls' # ncalls /\ pc' = pc) =>
          /\ chosen_target' = chosen_target /\ resolves' = resolves
          /\ \E t \in Threads :
               /\ StaticBuild(fn'[t])
               /\ ret'[t] = Apply(FuncPtr(HWY_STATIC_TARGET, fn'[t]), arg'[t])
       ]_vars

\* C13 witness: HWY_IDE is on in a build of three targets, all supported
\* by the host; every call was made and returned the static target's
\* result, and the cache is still unresolved.
C13_Witness ==
  /\ HWY_IDE /\ Cardinality(CompiledSet) = 3 /\ SupportedSet = Targets
  /\ ncalls = MaxCalls /\ ~Ready /\ resolves = 0
  /\ \A t \in Threads : Returned(t) /\ ret[t].ns = HWY_STATIC_TARGET

ScenarioA ==
  /\ Platform = X86_AVX3_TARGET_LIST /\ CompiledSet = Targets
  /\ SupportedSet = {"AVX2", "SSE4", HWY_SCALAR}
\* Scenario B: CompiledSet in priority order [NEON, Scalar],
\* SupportedSet = {Scalar}.
ScenarioB ==
  /\ Platform = ARM_TARGET_LIST /\ CompiledSet = Targets
  /\ SupportedSet = {HWY_SCALAR}

C11_ChooseDefined ==
  unit.included =>
    \A T \in ChooseTargetSet :
      \E m \in unit.macros :
        /\ m.name = MacroName(T)
        /\ Expand(m, UNIT_FUNC) =
             IF T \in unit.targets THEN Symbol(T, UNIT_FUNC) ELSE NULL

\* C16: HWY_ONCE is nonzero in exactly one pass of a unit, the static
\* target's, which is the last; the export block therefore defines the
\* dispatch table at most once while the unit compiles and exactly once
\* in a compiled unit, whether it has one pass or several.
C16_OncePerUnit ==
  /\ unit.tables <= 1
  /\ \A i \in 1..Len(unit.passes) :
       /\ (unit.passes[i].once # 0) <=> (unit.passes[i].target = unit.static)
       /\ (unit.passes[i].once # 0) => unit.todo = <<>>
  /\ (unit.status = "compiling" /\ unit.step = "once") =>
       ((unit.HWY_ONCE # 0) <=> (unit.HWY_TARGET = unit.static))
  /\ unit.status = "done" =>
       /\ unit.tables = 1
       /\ Cardinality({i \in 1..Len(unit.passes) :
                         unit.passes[i].once # 0}) = 1
       /\ unit.passes[Len(unit.passes)].target = unit.static
       /\ unit.foreach => Len(unit.passes) = Cardinality(unit.targets)

\* C16 witness: a unit of three targets is compiled; its table exists.
C16_Witness ==
  /\ unit.status = "done" /\ Len(unit.passes) = 3 /\ unit.tables = 1
  /\ ~HWY_IDE

C19_OneImplementationPerTarget ==
  /\ unit.error # "redefinition"
  /\ (unit.status = "done" /\ unit.foreach) =>
       /\ unit.symbols = {Symbol(T, UNIT_FUNC) : T \in unit.targets}
       /\ Cardinality(unit.symbols) = Cardinality(unit.targets)
       /\ \A T \in unit.targets :
            Cardinality({i \in 1..Len(unit.passes) :
                           unit.passes[i].target = T}) = 1
       /\ Len(unit.table) > 1 =>
            \A i \in 1..Len(TargetList) :
              TargetList[i] \in unit.targets =>
                 /\ unit.table[i + 1].ns = HWY_NAMESPACE(TargetList[i])
                 /\ unit.table[i + 1] \in unit.symbols

\* C19 witness: a unit of three targets is compiled with a multi-target
\* table.
C19_Witness ==
  /\ unit.status = "done" /\ Cardinality(unit.targets) = 3
  /\ Len(unit.table) > 1
  /\ Cardinality({unit.table[i].ns : i \in 2..Len(unit.table)} \ {"nullptr"})
       = 3

\* C18: no step of the running process changes the registry (the
\* platform's target list, HWY_IDE, CompiledSet, the modules' HWY_TARGETS)
\* or any slot of any exported table; of the process-wide state only the
\* chosen-target cache changes.
C18_Frame ==
  [][/\ UNCHANGED <<Platform, HWY_IDE, CompiledSet, HWY_TARGETS>>
     /\ \A f \in Funcs : HWY_EXPORT(f)' = HWY_EXPORT(f)
     /\ PriorityOrder' = PriorityOrder]_vars

\* C18 witness: every call was made, the cache was resolved by two Updates
\* and selects a slot other than the one call sites start from, and some
\* call ran a target other than the static one.
C18_Witness ==
  /\ ncalls = MaxCalls /\ resolves = 2 /\ Ready
  /\ chosen_target.selectedIndex # 0
  /\ \A t \in Threads : Returned(t)
  /\ \E t \in Threads : ret[t].ns # HWY_STATIC_TARGET

C22_ScalarSlotCallable ==
  /\ \A f \in Funcs :
       Dynamic(f) =>
          /\ TableAt(f, ScalarIndex) # NULL
          /\ TableAt(f, ScalarIndex) # INIT_SLOT
          /\ Len(HWY_EXPORT(f)) = ScalarIndex + 1
          /\ TableAt(f, ScalarIndex) =
               IF HWY_SCALAR \in HWY_TARGETS[f]
                 THEN FuncPtr(HWY_SCALAR, f)
                 ELSE FuncPtr(HWY_STATIC_TARGET, f)
  /\ \A t \in Threads :
       (Dynamic(fn[t]) /\ idx[t] = ScalarIndex) =>
          /\ NonNull(t)
          /\ Returned(t) =>
               ret[t] = Apply(TableAt(fn[t], ScalarIndex), arg[t])

\* C22 witness: the Detector reports only a target that is not compiled;
\* the cache fell back to the Scalar slot and a cold call returned
\* N_SCALAR's result through it.
C22_Witness ==
  /\ SupportedSet # {} /\ Usable = {}
  /\ \E t \in Threads :
       /\ ReturnedCold(t) /\ idx[t] = ScalarIndex
       /\ ret[t].ns = HWY_SCALAR

\* The passes up to and including the current one in which highway.h has
\* been included.
IncludedPasses ==
  [i \in 1..(Len(unit.passes) +
             (IF unit.status = "compiling" /\ unit.includes >= 1
                THEN 1 ELSE 0)) |->
     IF i <= Len(unit.passes) THEN unit.passes[i].target ELSE unit.HWY_TARGET]

\* C23: the ops of the per-target section have been included exactly once
\* for every pass in which highway.h was included, in the order of the
\* passes, however often highway.h was included in a pass; between the
\* first inclusion and the end of a pass the two toggles differ, under
\* foreach_target.h they agree again when the next pass starts, and
\* HWY_TARGET_TOGGLE is defined exactly after an odd number of passes
\* under foreach_target.h and never without it.
C23_PerTargetOnce ==
  unit.status \in {"compiling", "done"} =>
     /\ unit.ops = IncludedPasses
     /\ unit.toggle = (unit.foreach /\ Len(unit.passes) % 2 = 1)
     /\ (unit.status = "compiling" /\ unit.includes >= 1) =>
          unit.per_target # unit.toggle
     /\ (unit.status = "done" \/ unit.includes = 0) =>
          ((unit.per_target = unit.toggle) <=>
             (unit.foreach \/ unit.passes = <<>>))

\* C23 witness: in the second pass of a unit highway.h has been included
\* twice and the ops of the pass's target were included once.
C23_Witness ==
  /\ unit.status = "compiling" /\ Len(unit.passes) = 1
  /\ unit.includes = 2 /\ Len(unit.ops) = 2
  /\ unit.ops[2] = unit.HWY_TARGET


\* Every target of the build is compiled into the module of routine f.
Instantiated(f) == HWY_TARGETS[f] = CompiledSet

\* C24: a target that is not in CompiledSet is never chosen, whatever the
\* Detector reports: the resolved index is the Scalar slot's or that of a
\* compiled dynamic target; in every multi-target table whose module
\* instantiates all of CompiledSet the selected slot is not null and holds
\* a compiled target's implementation; no call of such a routine meets a
\* null slot, and the process is terminated only by a call of a routine
\* whose module leaves out a target of CompiledSet.
C24_ExcludedNeverChosen ==
  /\ Ready =>
       /\ chosen_target.selectedIndex \in 1..ScalarIndex
       /\ chosen_target.selectedIndex # ScalarIndex =>
            TargetList[chosen_target.selectedIndex] \in Usable
       /\ \A f \in Funcs :
            (Dynamic(f) /\ Instantiated(f)) =>
               /\ SelectedSlot(f) \notin {NULL, INIT_SLOT}
               /\ ChosenId(f) \in CompiledSet
               /\ ChosenId(f) \in SupportedSet \/ ChosenId(f) = BaselineTarget
  /\ \A t \in Threads :
       (Dynamic(fn[t]) /\ Instantiated(fn[t])) =>
          /\ NonNull(t)
          /\ Returned(t) => ret[t].ns \in CompiledSet
  /\ terminated =>
       \E t \in Threads :
         /\ pc[t] = "call" /\ ~NonNull(t)
         /\ ~Instantiated(fn[t])

\* C24 witness: the Detector reports a target excluded from the build that
\* outranks every compiled one; a cold call of a routine of a module with
\* all of CompiledSet returned from a compiled dynamic target.
C24_Witness ==
  /\ \E X \in SupportedSet \ CompiledSet :
       \A T \in CompiledSet : Rank(X) < Rank(T)
  /\ \E t \in Threads :
       /\ ReturnedCold(t) /\ Instantiated(fn[t])
       /\ ret[t].ns \in CompiledSet \ {HWY_SCALAR}
       /\ ~terminated


\* The target the ready cache's index stands for: the dynamic target at
\* that position of the priority order, or BaselineTarget for the Scalar
\* slot's index.
IndexTarget(i) == IF i = ScalarIndex THEN BaselineTarget ELSE TargetList[i]

NoNullSelected ==
  \A f \in Funcs : Dynamic(f) => TableAt(f, Resolve(SupportedTargets)) # NULL

\* Thread t is inside a dispatch call.
InCall(t) == pc[t] # "idle"

C27_StaticDynamicAgree ==
  /\ Ready =>
       \A f \in Funcs :
         (Dynamic(f)
            /\ IndexTarget(chosen_target.selectedIndex) = HWY_STATIC_TARGET) =>
            /\ SelectedSlot(f) = HWY_STATIC_DISPATCH(f)
            /\ SelectedSlot(f) = FuncPtr(HWY_STATIC_TARGET, f)
            /\ HWY_STATIC_TARGET \in CompiledSet
  /\ \A t \in Threads :
       (Returned(t) /\ Dynamic(fn[t]) /\ idx[t] # 0
          /\ IndexTarget(idx[t]) = HWY_STATIC_TARGET) =>
          /\ ret[t] = Apply(HWY_STATIC_DISPATCH(fn[t]), arg[t])
          /\ ret[t].arg = arg[t] /\ ret[t].ns = HWY_STATIC_TARGET

\* C27 witness: the static target is a dynamic target (Scalar is not
\* compiled) and the Detector reports it; one call reached it through the
\* initializer, another read the ready cache, and both returned the
\* statically dispatched function's result.
C27_Witness ==
  /\ HWY_STATIC_TARGET # HWY_SCALAR /\ HWY_STATIC_TARGET \in SupportedSet
  /\ \E t \in Threads, u \in Threads :
       /\ ReturnedCold(t) /\ Returned(u) /\ Dynamic(fn[u]) /\ first[u] # 0
       /\ idx[t] = Rank(HWY_STATIC_TARGET) /\ idx[u] = idx[t]
       /\ ret[t] = Apply(HWY_STATIC_DISPATCH(fn[t]), arg[t])
       /\ ret[u] = Apply(HWY_STATIC_DISPATCH(fn[u]), arg[u])

====
